---- MODULE Spec2Model ----
(***************************************************************************)
(* Model of the breast cancer prediction API (src/app.py): the module-level *)
(* load of the classifier artifact, the health endpoint GET / and the      *)
(* inference endpoint POST /predict, each request served on its own thread *)
(* that shares the loaded classifier and the operational log.              *)
(***************************************************************************)
EXTENDS Integers, Sequences, FiniteSets, TLC

VARIABLES
    phase,      \* "import" while app.py's module body runs, then "serving"
    modelo,     \* the module-level global of app.py:113
    loads,      \* number of joblib.load calls made so far
    log,        \* records emitted through logging (app.log)
    pc,         \* per request thread: position inside its handler
    local,      \* per request thread: the handler's local variables
    answered    \* the responses returned so far, with their request

vars == <<phase, modelo, loads, log, pc, local, answered>>

(***************************************************************************)
(* Bounds of the model.                                                    *)
(***************************************************************************)
MaxRequests == 2
MaxRepeats == 3
ProbScale == 4

NumFeatures == 30

(***************************************************************************)
(* JSON values as Python's json module decodes them.  Text is a sequence   *)
(* of characters; an object is the sequence of its (key, value) pairs in   *)
(* document order, keys unique, as a Python dict keeps them.               *)
(***************************************************************************)
JNull == [kind |-> "null", val |-> <<>>]
JBool(b) == [kind |-> "bool", val |-> b]
JNum(n) == [kind |-> "number", val |-> n]
JStr(chars) == [kind |-> "string", val |-> chars]
JList(elems) == [kind |-> "array", val |-> elems]
JObj(pairs) == [kind |-> "object", val |-> pairs]

FEATURES == <<"f", "e", "a", "t", "u", "r", "e", "s">>

Keys(obj) == {obj.val[i][1] : i \in 1..Len(obj.val)}

Lookup(obj, key) ==
    LET i == CHOOSE j \in 1..Len(obj.val) : obj.val[j][1] = key
    IN  obj.val[i][2]

\* Python truthiness: `not data` at app.py:316 and `if features` at app.py:333.
Truthy(v) ==
    CASE v.kind = "null" -> FALSE
      [] v.kind = "bool" -> v.val
      [] v.kind = "number" -> v.val # 0
      [] OTHER -> Len(v.val) > 0

\* Python len(): defined for text, lists and dicts; TypeError for the rest.
PyLen(v) ==
    IF v.kind \in {"string", "array", "object"}
    THEN [exc |-> "", n |-> Len(v.val)]
    ELSE [exc |-> "TypeError", n |-> 0]

IsSubstring(needle, hay) ==
    \E k \in 0..(Len(hay) - Len(needle)) :
        \A i \in 1..Len(needle) : hay[k + i] = needle[i]

\* Variant: a dict counts as positional only when `features` is its one key.
HasFeaturesAlone(data) ==
    CASE data.kind = "object" -> [exc |-> "", yes |-> Keys(data) = {"features"}]
      [] data.kind = "array" ->
            [exc |-> "", yes |-> \E i \in 1..Len(data.val) :
                                    /\ data.val[i].kind = "string"
                                    /\ data.val[i].val = FEATURES]
      [] data.kind = "string" -> [exc |-> "", yes |-> IsSubstring(FEATURES, data.val)]
      [] OTHER -> [exc |-> "TypeError", yes |-> FALSE]

\* `"features" in data` (app.py:326): a key test on a dict, an element test on
\* a list, a substring test on text, and a TypeError on a number or a boolean.
HasFeatures(data) ==
    CASE data.kind = "object" -> [exc |-> "", yes |-> "features" \in Keys(data)]
      [] data.kind = "array" ->
            [exc |-> "", yes |-> \E i \in 1..Len(data.val) :
                                    /\ data.val[i].kind = "string"
                                    /\ data.val[i].val = FEATURES]
      [] data.kind = "string" -> [exc |-> "", yes |-> IsSubstring(FEATURES, data.val)]
      [] OTHER -> [exc |-> "TypeError", yes |-> FALSE]

\* data.get("features") (app.py:327): only a dict has the method.
GetFeatures(data) ==
    IF data.kind = "object"
    THEN [exc |-> "", val |-> Lookup(data, "features")]
    ELSE [exc |-> "AttributeError", val |-> JNull]

(***************************************************************************)
(* pandas: pd.DataFrame([x]) builds one row.  A list gives one column per  *)
(* element, a dict one column per key (in key order), a scalar one column. *)
(***************************************************************************)
NoFrame == [shape |-> <<0, 0>>, row |-> <<>>]

DataFrame(x) ==
    LET row == CASE x.kind = "array" -> x.val
                 [] x.kind = "object" -> [i \in 1..Len(x.val) |-> x.val[i][2]]
                 [] OTHER -> <<x>>
    IN  [shape |-> <<1, Len(row)>>, row |-> row]

(***************************************************************************)
(* The classifier artifact: the LogisticRegression that training.py fits   *)
(* on the 30 columns of the dataset and dumps to modelo.pkl.  It is a      *)
(* coefficient per column and an intercept; class 1 is predicted when the  *)
(* decision value is positive, and the probability of class 1 is the       *)
(* logistic function of the decision value, here on a grid of ProbScale    *)
(* steps (a probability p is the integer p * ProbScale).                   *)
(***************************************************************************)
Half == ProbScale \div 2

Artifact(sign, intercept) ==
    [coef |-> [i \in 1..NumFeatures |-> IF 2 * i <= NumFeatures THEN sign ELSE 0 - sign],
     intercept |-> intercept]

Artifacts == {Artifact(1, 0), Artifact(-1, 1)}

NoModel == [coef |-> <<>>, intercept |-> 0]

Digits == <<"0", "1", "2", "3", "4", "5", "6", "7", "8", "9">>

IsDigit(c) == \E d \in 1..Len(Digits) : Digits[d] = c

DigitValue(c) == (CHOOSE d \in 1..Len(Digits) : Digits[d] = c) - 1

RECURSIVE TextValue(_)
TextValue(chars) ==
    IF chars = <<>> THEN 0
    ELSE 10 * TextValue(SubSeq(chars, 1, Len(chars) - 1)) + DigitValue(chars[Len(chars)])

\* The conversion of one cell to float64 made when the frame is validated:
\* a number is kept, text is parsed, anything else (None, a nested list or
\* dict) cannot be a finite float.
ToFloat(cell) ==
    CASE cell.kind = "number" -> [exc |-> "", x |-> cell.val]
      [] cell.kind = "bool" -> [exc |-> "", x |-> IF cell.val THEN 1 ELSE 0]
      [] cell.kind = "string" ->
            IF Len(cell.val) > 0 /\ \A i \in 1..Len(cell.val) : IsDigit(cell.val[i])
            THEN [exc |-> "", x |-> TextValue(cell.val)]
            ELSE [exc |-> "ValueError", x |-> 0]
      [] OTHER -> [exc |-> "ValueError", x |-> 0]

\* Input validation of the estimator: the column count it was fitted with
\* and cells that are finite floats, else ValueError.
CheckInput(m, frame) ==
    IF frame.shape[2] # Len(m.coef) THEN "ValueError"
    ELSE IF \E i \in 1..Len(frame.row) : ToFloat(frame.row[i]).exc # "" THEN "ValueError"
    ELSE ""

RECURSIVE Dot(_, _, _)
Dot(coef, row, n) ==
    IF n = 0 THEN 0 ELSE Dot(coef, row, n - 1) + coef[n] * ToFloat(row[n]).x

DecisionFunction(m, frame) == Dot(m.coef, frame.row, Len(m.coef)) + m.intercept

Sigmoid(d) ==
    IF Half + d > ProbScale THEN ProbScale
    ELSE IF Half + d < 0 THEN 0
    ELSE Half + d

\* modelo.predict(df): one class index per row.
Predict(m, frame) ==
    IF CheckInput(m, frame) # "" THEN [exc |-> CheckInput(m, frame), val |-> <<>>]
    ELSE [exc |-> "", val |-> <<IF DecisionFunction(m, frame) > 0 THEN 1 ELSE 0>>]

\* modelo.predict_proba(df): per row, <<P(class 0), P(class 1)>>.
PredictProba(m, frame) ==
    IF CheckInput(m, frame) # "" THEN [exc |-> CheckInput(m, frame), val |-> <<>>]
    ELSE LET p1 == Sigmoid(DecisionFunction(m, frame))
         IN  [exc |-> "", val |-> << <<ProbScale - p1, p1>> >>]

(***************************************************************************)
(* Responses and log records.                                              *)
(***************************************************************************)
NoBody == [k \in {} |-> ""]

NoResponse == [status |-> 0, mimetype |-> "", json |-> NoBody]

\* respuesta_json(data, status): the dict serialised as the response's JSON
\* document; the model keeps the document as the dict it encodes.
respuesta_json(data, status) ==
    [status |-> status, mimetype |-> "application/json; charset=utf-8", json |-> data]

LogRecord(level, msg, exc, arg) == [level |-> level, msg |-> msg, exc |-> exc, arg |-> arg]

\* Outcome of a stretch of handler code: a response to return, an exception
\* to hand to the except clause, or a frame to carry on with.
Return(resp, records) == [exc |-> "", resp |-> resp, frame |-> NoFrame, logs |-> records]

Raise(exc) == [exc |-> exc, resp |-> NoResponse, frame |-> NoFrame, logs |-> <<>>]

Continue(frame) == [exc |-> "", resp |-> NoResponse, frame |-> frame, logs |-> <<>>]

(***************************************************************************)
(* GET /                                                                   *)
(***************************************************************************)
EstadoBody == ("status" :> "OK") @@ ("mensaje" :> "API en línea y a la espera")

\* Variant: a health check that probes the classifier before it answers.
estadoProbing ==
    Return(respuesta_json(EstadoBody, IF Predict(modelo, NoFrame).exc = "" THEN 200 ELSE 500),
           <<LogRecord("INFO", "Health check solicitado - Endpoint raíz accedido", "", <<>>)>>)

estado ==
    Return(respuesta_json(EstadoBody, 200),
           <<LogRecord("INFO", "Health check solicitado - Endpoint raíz accedido", "", <<>>)>>)

(***************************************************************************)
(* POST /predict                                                           *)
(***************************************************************************)
\* request.get_json(): the decoded body.  A body that is not valid JSON
\* raises BadRequest.  A request with no JSON content type is answered by
\* the installed Flask either with None or with an HTTP exception.
GetJson(body) ==
    CASE body.sent = "json" -> {[exc |-> "", data |-> body.json]}
      [] body.sent = "malformed" -> {[exc |-> "BadRequest", data |-> JNull]}
      [] OTHER -> {[exc |-> "", data |-> JNull],
                   [exc |-> "UnsupportedMediaType", data |-> JNull]}

EmptyPayloadBody == ("error" :> "Se esperaba un JSON con datos")

FeaturesListBody ==
    ("error" :> "Formato inválido, se requieren 30 características en la lista 'features'")

NamedFeaturesBody ==
    ("error" :> "Formato inválido, se requieren 30 características con nombre")

InternalErrorBody == ("error" :> "Error interno en el servidor")

\* `len(features) if features else 0` inside the warning of app.py:331-334.
ReceivedCount(features) ==
    IF Truthy(features) THEN PyLen(features) ELSE [exc |-> "", n |-> 0]

\* Variant: the type test alone, a list of any length passes.
IsThirtyListAnyLength(features) == features.kind = "array"

\* app.py:330
IsThirtyList(features) ==
    features.kind = "array" /\ Len(features.val) = NumFeatures

\* app.py:326-343, the branch of a payload that has "features".
PositionalBranch(data) ==
    IF GetFeatures(data).exc # "" THEN Raise(GetFeatures(data).exc)
    ELSE LET features == GetFeatures(data).val
         IN  IF ~IsThirtyList(features)
             THEN IF ReceivedCount(features).exc # ""
                  THEN Raise(ReceivedCount(features).exc)
                  ELSE Return(respuesta_json(FeaturesListBody, 400),
                              <<LogRecord("WARNING",
                                          "Validación fallida: Se esperaban 30 features en lista",
                                          "", <<ReceivedCount(features).n>>)>>)
             ELSE Continue(DataFrame(features))

\* Variant: the count check written `<` where the handler has `!=`.
NamedBranchAtLeast(data) ==
    LET df == DataFrame(data)
    IN  IF df.shape[2] < NumFeatures
        THEN Return(respuesta_json(NamedFeaturesBody, 400),
                    <<LogRecord("WARNING",
                                "Validación fallida: Se esperaban 30 features con nombre",
                                "", <<df.shape[2]>>)>>)
        ELSE Continue(df)

\* app.py:349-363, the branch of a payload without "features".
NamedBranch(data) ==
    LET df == DataFrame(data)
    IN  IF df.shape[2] # NumFeatures
        THEN Return(respuesta_json(NamedFeaturesBody, 400),
                    <<LogRecord("WARNING",
                                "Validación fallida: Se esperaban 30 features con nombre",
                                "", <<df.shape[2]>>)>>)
        ELSE Continue(df)

\* app.py:315-363: the payload check and the construction of the frame.
Normalize(gj) ==
    IF gj.exc # "" THEN Raise(gj.exc)
    ELSE IF ~Truthy(gj.data)
    THEN Return(respuesta_json(EmptyPayloadBody, 400),
                <<LogRecord("WARNING", "Solicitud rechazada: Payload JSON vacío o nulo",
                            "", <<>>)>>)
    ELSE IF HasFeatures(gj.data).exc # "" THEN Raise(HasFeatures(gj.data).exc)
    ELSE IF HasFeatures(gj.data).yes THEN PositionalBranch(gj.data)
    ELSE NamedBranch(gj.data)

\* Variant: a classifier whose answer drifts once a response has gone out.
ClassifyDrifting(m, frame) ==
    IF Predict(m, frame).exc # "" THEN [exc |-> Predict(m, frame).exc, pred |-> 0]
    ELSE [exc |-> "",
          pred |-> IF answered = {} THEN Predict(m, frame).val[1]
                   ELSE 1 - Predict(m, frame).val[1]]

\* app.py:371, modelo.predict(df)[0]
Classify(m, frame) ==
    IF Predict(m, frame).exc # "" THEN [exc |-> Predict(m, frame).exc, pred |-> 0]
    ELSE [exc |-> "", pred |-> Predict(m, frame).val[1]]

\* Variant: the probability of class 1 whatever the predicted class.
ProbabilityOfClassOne(dist, pred) == dist[1][2]

\* app.py:375, [0][pred] of the distribution (Python indexes from 0).
Probability(dist, pred) == dist[1][pred + 1]

\* Variant: the two labels exchanged.
ResultadoSwapped(pred) == IF pred = 1 THEN "Benigno" ELSE "Maligno"

\* app.py:378
Resultado(pred) == IF pred = 1 THEN "Maligno" ELSE "Benigno"

\* app.py:375-386
Infer(m, frame, pred) ==
    IF PredictProba(m, frame).exc # "" THEN Raise(PredictProba(m, frame).exc)
    ELSE LET prob == Probability(PredictProba(m, frame).val, pred)
         IN  Return(respuesta_json(("predicción" :> Resultado(pred)) @@
                                   ("probabilidad" :> prob), 200),
                    <<LogRecord("INFO", "Predicción exitosa", "", <<pred, prob>>)>>)

\* Variant: an except clause that echoes the exception to the caller.
InternalErrorEchoed(exc) ==
    Return(respuesta_json(("error" :> exc), 500),
           <<LogRecord("ERROR", "Error crítico durante la predicción", exc, <<>>)>>)

\* Variant: an except clause that answers without logging.
InternalErrorSilent(exc) == Return(respuesta_json(InternalErrorBody, 500), <<>>)

\* app.py:388-394, the except clause.
InternalError(exc) ==
    Return(respuesta_json(InternalErrorBody, 500),
           <<LogRecord("ERROR", "Error crítico durante la predicción", exc, <<>>)>>)

\* Variant: no except clause, the exception leaves the handler.
TryNothing(out) == out

\* The try statement of app.py:310-394 around a stretch of the handler.
Try(out) == IF out.exc # "" THEN [InternalError(out.exc) EXCEPT !.exc = out.exc] ELSE out

(***************************************************************************)
(* The requests a client sends.                                            *)
(***************************************************************************)
Json(v) == [sent |-> "json", json |-> v]

NoRequestBody == [sent |-> "none", json |-> JNull]

MalformedBody == [sent |-> "malformed", json |-> JNull]

\* A list of n cells, all 0 but cell `pos` (none when pos = 0), which is x.
Vec(n, pos, x) == [i \in 1..n |-> IF i = pos THEN x ELSE JNum(0)]

FeatureNames ==
    <<"feature_1", "feature_2", "feature_3", "feature_4", "feature_5",
        "feature_6", "feature_7", "feature_8", "feature_9", "feature_10",
        "feature_11", "feature_12", "feature_13", "feature_14", "feature_15",
        "feature_16", "feature_17", "feature_18", "feature_19", "feature_20",
        "feature_21", "feature_22", "feature_23", "feature_24", "feature_25",
        "feature_26", "feature_27", "feature_28", "feature_29", "feature_30">>

\* The named shape of a vector: one key per cell, in the order of the cells.
Named(vec) == JObj([i \in 1..Len(vec) |-> <<FeatureNames[i], vec[i]>>])

Dato == <<"dato", JList(<<JNum(1), JNum(2), JNum(3)>>)>>

Positional(features) == Json(JObj(<<<<"features", features>>>>))

\* The catalogue of request bodies a client may send; a request names its
\* body by its place in the catalogue.  It opens with the bodies of a client
\* that keeps sending a few requests over and over.
RepeatedBodies ==
    <<Json(JNum(5)),
      Positional(JList(Vec(NumFeatures, 1, JNum(1)))),
      Json(Named(Vec(NumFeatures, 24, JNum(2)))),
      Positional(JList(Vec(NumFeatures, 24, JStr(<<"a">>)))),
      Json(JObj(<<Dato>>))>>

EmptyBodies ==
    <<NoRequestBody, MalformedBody, Json(JNull), Json(JObj(<<>>)), Json(JList(<<>>)),
      Json(JNum(0))>>

NonObjectBodies ==
    <<Json(JBool(TRUE)), Json(JStr(<<"a", "b", "c">>)), Json(JStr(FEATURES)),
      Json(JList(<<JStr(FEATURES)>>)), Json(JList(<<JNum(1), JNum(2), JNum(3)>>)),
      Json(JList(Vec(NumFeatures, 1, JNum(1))))>>

PositionalBodies ==
    <<Positional(JList(Vec(NumFeatures, 24, JNum(2)))),
      Positional(JList(Vec(NumFeatures, 2, JNull))),
      Positional(JList(<<>>)),
      Positional(JList(Vec(NumFeatures - 1, 1, JNum(1)))),
      Positional(JList(Vec(NumFeatures + 1, 24, JNum(2)))),
      Positional(JStr(<<"d", "a", "t", "o">>)),
      Positional(JNum(5)),
      Positional(JNum(0)),
      Positional(JBool(TRUE)),
      Positional(JNull),
      Positional(JObj(<<Dato>>)),
      Json(JObj(<<Dato, <<"features", JList(Vec(NumFeatures, 1, JNum(1)))>>>>)),
      Json(JObj(<<<<"features", JList(Vec(NumFeatures - 1, 1, JNum(1)))>>, Dato>>)),
      Json(JObj(Append(Named(Vec(NumFeatures - 1, 1, JNum(1))).val,
                       <<"features", JList(Vec(NumFeatures, 24, JNum(2)))>>)))>>

NamedBodies ==
    <<Json(Named(Vec(NumFeatures - 1, 1, JNum(1)))),
      Json(Named(Vec(NumFeatures, 1, JNum(1)))),
      Json(Named(Vec(NumFeatures, 24, JStr(<<"a">>)))),
      Json(JObj(Append(Named(Vec(NumFeatures, 1, JNum(1))).val, Dato)))>>

Catalogue ==
    RepeatedBodies \o NonObjectBodies \o EmptyBodies \o PositionalBodies \o NamedBodies

Requests == 1..Len(Catalogue)

RepeatedRequests == 1..Len(RepeatedBodies)

Body(req) == Catalogue[req]

(***************************************************************************)
(* The state machine.  The development server started at app.py:398 runs   *)
(* every request on a thread of its own: thread t handles request t.       *)
(***************************************************************************)
Threads == DOMAIN pc

NoLocal == [req |-> 0, frame |-> NoFrame, pred |-> 0, calls |-> <<>>]

\* One call of the classifier as a test double would record it: the method,
\* the shape of its argument and the row it returned (none when it raised).
Call(op, frame, returned) == [op |-> op, shape |-> frame.shape, returned |-> returned]

\* The part of a handler's outcome that ends the request.
Returned(out) == out.resp # NoResponse \/ out.exc # ""

\* Variant: a handler that loads the artifact again on every request.
ReloadingGlobals ==
    /\ \E artifact \in Artifacts : modelo' = artifact
    /\ loads' = loads + 1
    /\ UNCHANGED phase

\* No handler assigns the module's globals: there is no `global` statement
\* and no joblib.load in estado or predict.
ReadOnlyGlobals == UNCHANGED <<phase, modelo, loads>>

Answer(id, route, req, out, calls) ==
    [id |-> id, route |-> route, req |-> req, resp |-> out.resp, exc |-> out.exc,
     calls |-> calls]

\* The process starts importing app.py; n requests will arrive.
Boot(n) ==
    /\ phase = "import"
    /\ modelo = NoModel
    /\ loads = 0
    /\ log = <<>>
    /\ pc = [t \in 1..n |-> "new"]
    /\ local = [t \in 1..n |-> NoLocal]
    /\ answered = {}

Init == Boot(MaxRequests)

InitRepeat == Boot(MaxRepeats)

\* app.py:113-114, run once when the module is imported, before app.run.
LoadModel ==
    /\ phase = "import"
    /\ \E artifact \in Artifacts : modelo' = artifact
    /\ loads' = loads + 1
    /\ log' = Append(log, LogRecord("INFO",
                         "Modelo de clasificación cargado exitosamente en memoria", "", <<>>))
    /\ phase' = "serving"
    /\ UNCHANGED <<pc, local, answered>>

\* Requests are numbered in the order the server accepts them, and none is
\* accepted before the module body has run.
Accepting(t) ==
    /\ phase = "serving"
    /\ pc[t] = "new"
    /\ \A u \in Threads : u < t => pc[u] # "new"

\* app.py:159-200
Estado(t) ==
    /\ Accepting(t)
    /\ log' = log \o estado.logs
    /\ answered' = answered \cup {Answer(t, "GET /", 0, estado, <<>>)}
    /\ pc' = [pc EXCEPT ![t] = "done"]
    /\ UNCHANGED local
    /\ ReadOnlyGlobals

\* app.py:310-363 on one of the requests `offered`: either the handler
\* returns here, or it goes on to the classifier.
Receive(t, offered) ==
    /\ Accepting(t)
    /\ \E req \in offered : \E gj \in GetJson(Body(req)) :
         LET out == Try(Normalize(gj))
         IN  /\ log' = log \o out.logs
             /\ IF Returned(out)
                THEN /\ answered' = answered \cup {Answer(t, "POST /predict", req, out, <<>>)}
                     /\ pc' = [pc EXCEPT ![t] = "done"]
                     /\ UNCHANGED local
                ELSE /\ pc' = [pc EXCEPT ![t] = "predict"]
                     /\ local' = [local EXCEPT ![t] = [NoLocal EXCEPT !.req = req,
                                                                      !.frame = out.frame]]
                     /\ UNCHANGED answered
    /\ ReadOnlyGlobals

PredictBegin(t) == Receive(t, Requests)

PredictRepeated(t) == Receive(t, RepeatedRequests)

\* app.py:371
PredictClassify(t) ==
    /\ pc[t] = "predict"
    /\ LET me == local[t]
           r == Classify(modelo, me.frame)
           calls == Append(me.calls, Call("predict", me.frame, Predict(modelo, me.frame).val))
       IN  IF r.exc # ""
           THEN /\ log' = log \o Try(Raise(r.exc)).logs
                /\ answered' = answered \cup
                       {Answer(t, "POST /predict", me.req, Try(Raise(r.exc)), calls)}
                /\ pc' = [pc EXCEPT ![t] = "done"]
                /\ local' = [local EXCEPT ![t] = NoLocal]
           ELSE /\ pc' = [pc EXCEPT ![t] = "proba"]
                /\ local' = [local EXCEPT ![t].pred = r.pred, ![t].calls = calls]
                /\ UNCHANGED <<log, answered>>
    /\ ReadOnlyGlobals

\* app.py:375-394
PredictRespond(t) ==
    /\ pc[t] = "proba"
    /\ LET me == local[t]
           out == Try(Infer(modelo, me.frame, me.pred))
           proba == PredictProba(modelo, me.frame)
           calls == Append(me.calls,
                           Call("predict_proba", me.frame,
                                IF proba.exc # "" THEN <<>> ELSE proba.val[1]))
       IN  /\ log' = log \o out.logs
           /\ answered' = answered \cup {Answer(t, "POST /predict", me.req, out, calls)}
    /\ pc' = [pc EXCEPT ![t] = "done"]
    /\ local' = [local EXCEPT ![t] = NoLocal]
    /\ ReadOnlyGlobals

Next ==
    \/ LoadModel
    \/ \E t \in Threads : Estado(t)
    \/ \E t \in Threads : PredictBegin(t)
    \/ \E t \in Threads : PredictClassify(t)
    \/ \E t \in Threads : PredictRespond(t)

Spec == Init /\ [][Next]_vars

\* The same service under a longer run of a client that repeats its requests.
NextRepeat ==
    \/ LoadModel
    \/ \E t \in Threads : Estado(t)
    \/ \E t \in Threads : PredictRepeated(t)
    \/ \E t \in Threads : PredictClassify(t)
    \/ \E t \in Threads : PredictRespond(t)

SpecRepeat == InitRepeat /\ [][NextRepeat]_vars

(***************************************************************************)
(* Vocabulary of the properties.                                           *)
(***************************************************************************)
Posts == {a \in answered : a.route = "POST /predict"}

Gets == {a \in answered : a.route = "GET /"}

\* The decoded payload of an answered POST, when its body was valid JSON.
Decoded(a) == Body(a.req).sent = "json"

Payload(a) == Body(a.req).json

IsObject(v) == v.kind = "object"

HasKey(v, key) == IsObject(v) /\ key \in Keys(v)

ErrorOnly(resp) == DOMAIN resp.json = {"error"}

\* C1: every POST /predict whose JSON object has the key `features` with a
\* value that is not a list, or is a list whose length is not 30, is answered
\* 400 with an `error` body, and the classifier is not invoked.
C1_BadFeaturesAnswered400 ==
    \A a \in Posts :
        (/\ Decoded(a)
         /\ HasKey(Payload(a), "features")
         /\ LET f == Lookup(Payload(a), "features")
            IN  f.kind # "array" \/ Len(f.val) # 30)
        => /\ a.resp.status = 400
           /\ ErrorOnly(a.resp)
           /\ a.calls = <<>>

\* C2: every POST /predict whose body is absent, unparseable, null, empty or
\* a JSON value that is not an object is answered 400 with the EmptyPayload
\* error, and the classifier is not invoked.
C2_NonObjectAnsweredEmptyPayload ==
    \A a \in Posts :
        (\/ ~Decoded(a)
         \/ ~IsObject(Payload(a))
         \/ Payload(a).val = <<>>)
        => /\ a.resp.status = 400
           /\ a.resp.json = ("error" :> "Se esperaba un JSON con datos")
           /\ a.calls = <<>>

\* C3: a non-empty JSON object without the key `features` is answered 400
\* with the named-features error exactly when its number of top-level keys is
\* not 30; with exactly 30 keys it is never answered 400 and its frame
\* reaches the classifier.
C3_NamedCountDecides ==
    \A a \in Posts :
        (/\ Decoded(a)
         /\ IsObject(Payload(a))
         /\ Payload(a).val # <<>>
         /\ ~HasKey(Payload(a), "features"))
        => /\ (/\ a.resp.status = 400
               /\ a.resp.json =
                    ("error" :> "Formato inválido, se requieren 30 características con nombre"))
              <=> Cardinality(Keys(Payload(a))) # 30
           /\ Cardinality(Keys(Payload(a))) = 30
                => a.resp.status # 400 /\ a.calls # <<>>

C3_Witness ==
    /\ \E a \in Posts :
          /\ Decoded(a) /\ IsObject(Payload(a)) /\ ~HasKey(Payload(a), "features")
          /\ Cardinality(Keys(Payload(a))) = 30
          /\ a.resp.status = 200
          /\ Len(a.calls) = 2
    /\ \E a \in Posts :
          /\ Decoded(a) /\ IsObject(Payload(a)) /\ ~HasKey(Payload(a), "features")
          /\ Cardinality(Keys(Payload(a))) = 31
          /\ a.resp.status = 400

\* C4: when the payload passed the count validation and the classifier
\* raised during predict or predict_proba, the response is status 500 with
\* exactly the fixed generic body; it is never 400 and the body carries
\* neither the type nor the text of the exception.
C4_ClassifierFailureIsGeneric500 ==
    \A a \in Posts :
        (a.calls # <<>> /\ a.calls[Len(a.calls)].returned = <<>>)
        => /\ a.exc # ""
           /\ a.resp.status = 500
           /\ a.resp.json = ("error" :> "Error interno en el servidor")
           /\ \A k \in DOMAIN a.resp.json : a.resp.json[k] # a.exc

C4_Witness ==
    /\ \E a \in Posts :
          /\ HasKey(Payload(a), "features")
          /\ a.calls # <<>> /\ a.calls[1].shape = <<1, 30>> /\ a.calls[1].returned = <<>>
          /\ a.exc = "ValueError"
          /\ a.resp.status = 500
    /\ \E a \in Posts :
          /\ IsObject(Payload(a)) /\ ~HasKey(Payload(a), "features")
          /\ a.calls # <<>> /\ a.calls[1].returned = <<>>
          /\ a.resp.status = 500

\* A list of 30 JSON numbers.
IsNumericVector(v) ==
    /\ v.kind = "array"
    /\ Len(v.val) = 30
    /\ \A i \in 1..Len(v.val) : v.val[i].kind = "number"

\* The payload is exactly {"features": V} for a 30-element numeric vector V.
IsValidPositional(a) ==
    /\ Decoded(a)
    /\ IsObject(Payload(a))
    /\ Keys(Payload(a)) = {"features"}
    /\ IsNumericVector(Lookup(Payload(a), "features"))

\* C5: a valid 30-element numeric vector posted as {"features": V} is
\* answered 200 with exactly the keys `predicción` and `probabilidad`, and
\* `predicción` is "Maligno" when the class index the classifier returned is 1
\* and "Benigno" when it is 0.
C5_ValidVectorLabelled ==
    \A a \in Posts :
        IsValidPositional(a)
        => /\ a.resp.status = 200
           /\ DOMAIN a.resp.json = {"predicción", "probabilidad"}
           /\ a.calls # <<>>
           /\ a.calls[1].op = "predict"
           /\ a.calls[1].returned \in {<<0>>, <<1>>}
           /\ a.calls[1].returned = <<1>> => a.resp.json["predicción"] = "Maligno"
           /\ a.calls[1].returned = <<0>> => a.resp.json["predicción"] = "Benigno"

C5_Witness ==
    /\ \E a \in Posts :
          IsValidPositional(a) /\ a.calls[1].returned = <<1>>
          /\ a.resp.json["predicción"] = "Maligno"
    /\ \E a \in Posts :
          IsValidPositional(a) /\ a.calls[1].returned = <<0>>
          /\ a.resp.json["predicción"] = "Benigno"

\* C6: in every 200 response of /predict, `probabilidad` is the entry of the
\* distribution predict_proba returned at the class index predict returned,
\* so it lies in [0.0, 1.0] (0..ProbScale on the grid).
C6_ConfidenceOfPredictedClass ==
    \A a \in Posts :
        a.resp.status = 200
        => /\ Len(a.calls) = 2
           /\ a.calls[2].op = "predict_proba"
           /\ Len(a.calls[2].returned) = 2
           /\ a.resp.json["probabilidad"] = a.calls[2].returned[a.calls[1].returned[1] + 1]
           /\ a.resp.json["probabilidad"] \in 0..ProbScale

\* A 200 response whose predicted class is 0 and whose distribution gives
\* class 1 another probability.
C6_Witness ==
    \E a \in Posts :
        /\ a.resp.status = 200
        /\ a.calls[1].returned = <<0>>
        /\ a.calls[2].returned[1] # a.calls[2].returned[2]
        /\ a.resp.json["probabilidad"] = a.calls[2].returned[1]

\* A request the service answers with a prediction: 30 numbers, positional
\* under `features` or named.
IsValidRequest(a) ==
    /\ Decoded(a)
    /\ IsObject(Payload(a))
    /\ IF HasKey(Payload(a), "features")
       THEN IsNumericVector(Lookup(Payload(a), "features"))
       ELSE /\ Len(Payload(a).val) = 30
            /\ \A i \in 1..Len(Payload(a).val) : Payload(a).val[i][2].kind = "number"

\* C7: two answers to the same valid /predict request carry the same status,
\* label and confidence, whatever was handled in between or meanwhile.
C7_SameRequestSameResponse ==
    \A a \in Posts : \A b \in Posts :
        (a.req = b.req /\ IsValidRequest(a)) => a.resp = b.resp

\* The same valid request answered first and third, another request second.
C7_Witness ==
    \E a \in Posts : \E b \in Posts : \E c \in answered :
        /\ a.id = 1 /\ c.id = 2 /\ b.id = 3
        /\ a.req = b.req /\ IsValidRequest(a)
        /\ c.req # a.req
        /\ a.resp.status = 200 /\ b.resp = a.resp

\* C8: GET / is always answered 200 with the fixed status body and never
\* invokes the classifier, whatever was requested before and whichever
\* artifact is loaded.
C8_HealthAlwaysOk ==
    \A a \in Gets :
        /\ a.resp.status = 200
        /\ a.resp.json = ("status" :> "OK") @@ ("mensaje" :> "API en línea y a la espera")
        /\ a.calls = <<>>

\* A health check answered after a failed and a successful prediction.
C8_Witness ==
    \E a \in Gets : \E b \in Posts : \E c \in Posts :
        /\ a.id = 3 /\ a.resp.status = 200
        /\ b.resp.status = 500
        /\ c.resp.status = 200

\* C9: every POST /predict that has ended has exactly one response, of status
\* 200, 400 or 500; a 200 body carries `predicción` and `probabilidad` and no
\* `error`, a 400 or 500 body only `error`; a response exists only for a
\* handler that has ended.
C9_OneResponsePerRequest ==
    /\ \A t \in Threads :
          /\ pc[t] = "done" => Cardinality({a \in answered : a.id = t}) = 1
          /\ pc[t] # "done" => {a \in answered : a.id = t} = {}
    /\ \A a \in Posts :
          /\ a.resp.status \in {200, 400, 500}
          /\ a.resp.status = 200 => DOMAIN a.resp.json = {"predicción", "probabilidad"}
          /\ a.resp.status \in {400, 500} => DOMAIN a.resp.json = {"error"}

\* One request that raised during validation and one that was predicted.
C9_Witness ==
    \E a \in Posts : \E b \in Posts :
        /\ a.exc = "TypeError" /\ a.resp.status = 500 /\ a.calls = <<>>
        /\ b.resp.status = 200
        /\ \A t \in Threads : pc[t] = "done"

\* C10: the artifact is loaded exactly once, before any request is taken,
\* and no step of a handler reloads, reassigns or changes it.
C10_LoadedOnceNeverChanged ==
    /\ []((\E t \in Threads : pc[t] # "new") => (loads = 1 /\ modelo \in Artifacts))
    /\ [][phase = "serving" => (modelo' = modelo /\ loads' = loads)]_vars

\* Every request has ended, with a failure, a prediction and a health check
\* among them, under the one load.
C10_Witness ==
    /\ \A t \in Threads : pc[t] = "done"
    /\ \E a \in Posts : a.resp.status = 500
    /\ \E a \in Posts : a.resp.status = 200
    /\ Gets # {}
    /\ loads = 1
    /\ modelo \in Artifacts

\* C11: whenever the classifier is invoked (predict or predict_proba) its
\* argument is a single row of exactly 30 columns, for the positional and
\* for the named input shape alike; no request answered 400 has invoked it.
C11_ClassifierSeesOneRowOfThirty ==
    /\ \A a \in Posts :
          /\ \A i \in 1..Len(a.calls) : a.calls[i].shape = <<1, NumFeatures>>
          /\ a.resp.status = 400 => a.calls = <<>>
    /\ \A t \in Threads :
          /\ \A i \in 1..Len(local[t].calls) :
                local[t].calls[i].shape = <<1, NumFeatures>>
          /\ pc[t] \in {"predict", "proba"} => local[t].frame.shape = <<1, NumFeatures>>

\* A named request answered after both classifier calls on a 1 x 30 frame,
\* while a positional request is between predict and predict_proba with a
\* 1 x 30 frame of its own.
C11_Witness ==
    /\ \E a \in Posts :
          /\ IsObject(Payload(a)) /\ ~HasKey(Payload(a), "features")
          /\ Len(a.calls) = 2
          /\ a.calls[1].op = "predict" /\ a.calls[2].op = "predict_proba"
          /\ a.calls[2].shape = <<1, 30>>
    /\ \E t \in Threads :
          /\ pc[t] = "proba"
          /\ HasKey(Body(local[t].req).json, "features")
          /\ local[t].frame.shape = <<1, 30>>
          /\ Len(local[t].calls) = 1

\* The level of the record the handler writes for a response of this status.
LevelOf(status) ==
    CASE status = 400 -> "WARNING"
      [] status = 500 -> "ERROR"
      [] status = 200 -> "INFO"
      [] OTHER -> "NONE"

\* C12: the step that returns the response of a POST /predict appends one
\* record to the log, WARNING for a 400, ERROR for a 500, INFO for a 200, and
\* no step removes or alters a record already in the log.
C12_EveryPostLoggedLogOnlyGrows ==
    [][/\ Len(log') >= Len(log)
       /\ SubSeq(log', 1, Len(log)) = log
       /\ \A a \in answered' \ answered :
             a.route = "POST /predict"
             => /\ Len(log') = Len(log) + 1
                /\ log'[Len(log')].level = LevelOf(a.resp.status)]_vars

\* A request refused with 400 and one that failed with 500 have ended; the
\* log holds the load record and then their two records, in the order of
\* their responses.
C12_Witness ==
    \E a \in Posts : \E b \in Posts :
        /\ a.resp.status = 400 /\ b.resp.status = 500
        /\ Len(log) = 3
        /\ log[1].level = "INFO"
        /\ log[2].level = "ERROR" /\ log[2].exc = b.exc
        /\ log[3].level = "WARNING"

\* training.py:18 and 67, the target encoding of the dataset the classifier
\* is fitted on: the diagnosis a class index stands for.
TargetEncoding(c) == IF c = 0 THEN "maligno" ELSE "benigno"

\* The diagnosis a label of the response names.
Diagnosis(label) ==
    CASE label = "Maligno" -> "maligno"
      [] label = "Benigno" -> "benigno"
      [] OTHER -> "none"

\* C13: the label /predict returns for the class index the classifier
\* predicted names the diagnosis the training script's target encoding gives
\* that index (0 = maligno, 1 = benigno).
C13_LabelAgreesWithTraining ==
    \A a \in Posts :
        a.resp.status = 200
        => Diagnosis(a.resp.json["predicción"]) = TargetEncoding(a.calls[1].returned[1])

\* Equality of two JSON values, kind first.
RECURSIVE SameJson(_, _)
SameJson(x, y) ==
    /\ x.kind = y.kind
    /\ CASE x.kind = "null" -> TRUE
         [] x.kind = "array" ->
               /\ Len(x.val) = Len(y.val)
               /\ \A i \in 1..Len(x.val) : SameJson(x.val[i], y.val[i])
         [] x.kind = "object" ->
               /\ Len(x.val) = Len(y.val)
               /\ \A i \in 1..Len(x.val) :
                     /\ x.val[i][1] = y.val[i][1]
                     /\ SameJson(x.val[i][2], y.val[i][2])
         [] OTHER -> x.val = y.val

\* Same status and same body (label and confidence, or error text).
SameResponse(x, y) ==
    /\ x.status = y.status
    /\ DOMAIN x.json = DOMAIN y.json
    /\ \A k \in DOMAIN x.json : x.json[k] = y.json[k]

\* An answered POST whose payload is an object with the key `features`.
IsPositional(a) == Decoded(a) /\ HasKey(Payload(a), "features")

\* C14: two posted objects that have the same value under `features` get the
\* same status, label and confidence whatever their other top-level keys
\* are, and an object that has `features` is never answered with the
\* named-features count error.
C14_OnlyFeaturesDecides ==
    /\ \A a \in Posts : \A b \in Posts :
          (/\ IsPositional(a) /\ IsPositional(b)
           /\ SameJson(Lookup(Payload(a), "features"), Lookup(Payload(b), "features")))
          => SameResponse(a.resp, b.resp)
    /\ \A a \in Posts :
          IsPositional(a)
          => ~(/\ a.resp.status = 400
               /\ a.resp.json =
                    ("error" :> "Formato inválido, se requieren 30 características con nombre"))

\* {"features": V} and an object of 30 top-level keys, `features` with the
\* same V and 29 named numbers, both answered with the same prediction.
C14_Witness ==
    \E a \in Posts : \E b \in Posts :
        /\ IsPositional(a) /\ IsPositional(b)
        /\ Keys(Payload(a)) = {"features"}
        /\ Cardinality(Keys(Payload(b))) = 30
        /\ SameJson(Lookup(Payload(a), "features"), Lookup(Payload(b), "features"))
        /\ a.resp.status = 200
        /\ SameResponse(a.resp, b.resp)

====
